---- MODULE Spec2Model ----
(***************************************************************************)
(* A model of repoze.bfg.security: the policy-dispatch facade functions,   *)
(* the boolean-with-message result types, and the ACL authorization        *)
(* policy that produces the ACL result types.                              *)
(*                                                                         *)
(* Python values are tagged records, so that values of different Python    *)
(* types can be compared: None, opaque objects, strings, lists, tuples.    *)
(***************************************************************************)
EXTENDS Integers, Sequences, FiniteSets, TLC

VARIABLES
    authn_policy,   \* the registered IAuthenticationPolicy utility, or None
    authz_policy,   \* the registered IAuthorizationPolicy utility, or None
    view_perms,     \* view name -> registered IViewPermission factory, or None
    op,             \* the facade call made last: its name and its arguments
    outcome,        \* what that call did: a returned value or a raised exception
    lookups,        \* the registry lookups that call made, in order
    calls,          \* the policy method calls that call made, in order
    warned,         \* the warnings that call emitted, in order
    inst,           \* the result object constructed last
    resource,       \* the context of ACL checks: a node, its ACL and its parent
    acl_op,         \* the ACL policy call made last
    acl_result      \* the result of that call

vars == <<authn_policy, authz_policy, view_perms, op, outcome, lookups, calls,
          warned, inst, resource, acl_op, acl_result>>

facade_vars == <<authn_policy, authz_policy, view_perms, op, outcome, lookups,
                 calls, warned>>

acl_vars == <<resource, acl_op, acl_result>>

-----------------------------------------------------------------------------
(* Bounds *)

\* authenticated_userid(*args) and effective_principals(*args) are called
\* with 0 .. MaxArgs positional arguments.
MaxArgs == 3

\* An ACL holds at most MaxAclLen entries.
MaxAclLen == 2

-----------------------------------------------------------------------------
(* Python values *)

None == [t |-> "NoneType"]

Obj(id) == [t |-> "object", id |-> id]

Str(v) == [t |-> "str", v |-> v]

List(items) == [t |-> "list", items |-> items]

Tuple(items) == [t |-> "tuple", items |-> items]

Exception(cls, args) == [t |-> cls, args |-> args]

-----------------------------------------------------------------------------
(* The vocabulary *)

Everyone == Str("system.Everyone")

Authenticated == Str("system.Authenticated")

Allow == Str("Allow")

Deny == Str("Deny")

ALL_PERMISSIONS == [t |-> "AllPermissionsList"]

\* AllPermissionsList.__eq__: equal to any other instance of the class.
AllPermissionsList_eq(self, other) == other.t = self.t

\* A faulty variant: membership decided as equality is.
AllPermissionsList_contains_AsEq(self, other) ==
    AllPermissionsList_eq(self, other)

\* AllPermissionsList.__contains__: every permission is in the list.
AllPermissionsList_contains(self, other) == TRUE

DENY_ALL == Tuple(<<Deny, Everyone, ALL_PERMISSIONS>>)

-----------------------------------------------------------------------------
(* The result types *)

Denied_boolval == 0

Allowed_boolval == 1

ACLDenied_boolval == 0

ACLAllowed_boolval == 1

\* cls.boolval, the class attribute each concrete result class sets.
boolval(cls) ==
    CASE cls = "Denied" -> Denied_boolval
      [] cls = "Allowed" -> Allowed_boolval
      [] cls = "ACLDenied" -> ACLDenied_boolval
      [] cls = "ACLAllowed" -> ACLAllowed_boolval

\* A faulty variant: the integer value taken from the message, not from the class.
PermitsResult_new_FromMessage(cls, s, args) ==
    [t |-> cls, int |-> IF s = <<>> THEN 0 ELSE 1, s |-> s, args |-> args]

\* PermitsResult.__new__(cls, s, *args): an int of value cls.boolval that
\* keeps the format string and its arguments.
PermitsResult_new(cls, s, args) ==
    [t |-> cls, int |-> boolval(cls), s |-> s, args |-> args]

Denied(s, args) == PermitsResult_new("Denied", s, args)

Allowed(s, args) == PermitsResult_new("Allowed", s, args)

\* A faulty variant: the ace and acl attributes exchanged.
ACLPermitsResult_new_Swapped(cls, ace, acl, permission, principals, context) ==
    [t |-> cls, int |-> boolval(cls), permission |-> permission, ace |-> acl,
     acl |-> ace, principals |-> principals, context |-> context]

\* ACLPermitsResult.__new__(cls, ace, acl, permission, principals, context).
ACLPermitsResult_new(cls, ace, acl, permission, principals, context) ==
    [t |-> cls, int |-> boolval(cls), permission |-> permission, ace |-> ace,
     acl |-> acl, principals |-> principals, context |-> context]

ACLDenied(ace, acl, permission, principals, context) ==
    ACLPermitsResult_new("ACLDenied", ace, acl, permission, principals, context)

ACLAllowed(ace, acl, permission, principals, context) ==
    ACLPermitsResult_new("ACLAllowed", ace, acl, permission, principals, context)

\* int.__nonzero__: the truth value of a result is that of its integer.
Truth(v) == v.int # 0

\* s % args. A format string is a sequence of tokens: a literal piece of
\* text, or a conversion "%r" / "%s" that consumes the next argument.
RECURSIVE Format(_, _)
Format(s, args) ==
    IF s = <<>> THEN <<>>
    ELSE IF Head(s) = "%r"
         THEN <<[repr |-> Head(args)]>> \o Format(Tail(s), Tail(args))
    ELSE IF Head(s) = "%s"
         THEN <<[str |-> Head(args)]>> \o Format(Tail(s), Tail(args))
    ELSE <<[lit |-> Head(s)]>> \o Format(Tail(s), args)

\* PermitsResult.msg
PermitsResult_msg(self) == Format(self.s, self.args)

\* ACLPermitsResult.msg
ACLPermitsResult_msg(self) ==
    Format(<<"%s", " permission ", "%r", " via ACE ", "%r", " in ACL ", "%r",
             " on context ", "%r", " for principals ", "%r">>,
           <<Str(self.t), self.permission, self.ace, self.acl, self.context,
             self.principals>>)

-----------------------------------------------------------------------------
(* The values the facade functions are called with *)

Contexts == {Obj("ctx1"), Obj("ctx2")}

Requests == {Obj("req1")}

Permissions == {Str("view"), Str("edit")}

ViewNames == {Str(""), Str("edit.html")}

Userids == {Str("bob")}

\* remember(context, request, principal, **kw): the keyword arguments, as a
\* set of (name, value) pairs.
Keywords == {{}, {<<"password", Str("123")>>}}

\* The positional arguments of a variadic facade call.
RECURSIVE ArgLists(_)
ArgLists(n) ==
    IF n = 0 THEN {<<>>}
    ELSE LET shorter == ArgLists(n - 1) IN
         shorter \cup {Append(a, x) : a \in {b \in shorter : Len(b) = n - 1},
                                      x \in {Obj("ctx1"), Obj("req1")}}

-----------------------------------------------------------------------------
(* The policies. A policy is an object of another module or package; here
   it is a stub whose methods return the values it was built with, whatever
   it is called with. The arguments of every call are recorded in `calls`. *)

AuthenticationPolicies ==
    [t : {"policy"}, name : {"authn"},
     effective_principals :
         {List(<<Everyone>>), List(<<Everyone, Authenticated, Str("bob")>>)},
     authenticated_userid : {None, Str("bob")},
     remember : {List(<<>>),
                 List(<<Tuple(<<Str("Set-Cookie"), Str("foo=abc")>>)>>)},
     forget : {List(<<>>),
               List(<<Tuple(<<Str("Set-Cookie"), Str("foo=")>>)>>)}]

AuthorizationPolicies ==
    [t : {"policy"}, name : {"authz"},
     permits :
         {Allowed(<<"stub allows">>, <<>>),
          Denied(<<"stub denies ", "%r">>, <<Str("view")>>),
          ACLDenied(DENY_ALL, List(<<DENY_ALL>>), Str("view"),
                    List(<<Everyone>>), Obj("ctx1"))},
     principals_allowed_by_permission :
         {List(<<Everyone>>), List(<<Str("bob")>>)}]

\* One call of a policy method: what it was called with and what it returned.
PolicyCall(policy, method, args, kw) ==
    [obj |-> policy.name, method |-> method, args |-> args, kw |-> kw,
     ret |-> policy[method]]

-----------------------------------------------------------------------------
(* The component registry (zope.component) *)

IAuthenticationPolicy == "IAuthenticationPolicy"

IAuthorizationPolicy == "IAuthorizationPolicy"

IViewPermission == "IViewPermission"

\* queryUtility(interface): the registered utility, or None.
queryUtility(interface) ==
    IF interface = IAuthenticationPolicy THEN authn_policy ELSE authz_policy

-----------------------------------------------------------------------------
(* What a call does: it returns a value or raises, after a sequence of
   registry lookups, policy calls and warnings. *)

Return(value, lk, cl, wn) ==
    [outcome |-> [kind |-> "return", value |-> value],
     lookups |-> lk, calls |-> cl, warned |-> wn]

Raise(exc, lk, cl, wn) ==
    [outcome |-> [kind |-> "raise", value |-> exc],
     lookups |-> lk, calls |-> cl, warned |-> wn]

\* A faulty variant: the authorization policy is asked with the request in place of
\* the context.
has_permission_Swapped(permission, context, request) ==
    LET authn == queryUtility(IAuthenticationPolicy) IN
    IF authn = None
    THEN Return(Allowed(<<"No authentication policy in use.">>, <<>>),
                <<IAuthenticationPolicy>>, <<>>, <<>>)
    ELSE
    LET authz == queryUtility(IAuthorizationPolicy) IN
    IF authz = None
    THEN Raise(Exception("ValueError",
                  <<Str("Authentication policy registered without authorization policy")>>),
               <<IAuthenticationPolicy, IAuthorizationPolicy>>, <<>>, <<>>)
    ELSE
    LET c1 == PolicyCall(authn, "effective_principals",
                         <<context, request>>, {})
        c2 == PolicyCall(authz, "permits",
                         <<request, c1.ret, permission>>, {})
    IN  Return(c2.ret, <<IAuthenticationPolicy, IAuthorizationPolicy>>,
               <<c1, c2>>, <<>>)

\* A faulty variant: a missing authorization policy allows.
has_permission_Lax(permission, context, request) ==
    LET authn == queryUtility(IAuthenticationPolicy) IN
    IF authn = None
    THEN Return(Allowed(<<"No authentication policy in use.">>, <<>>),
                <<IAuthenticationPolicy>>, <<>>, <<>>)
    ELSE
    LET authz == queryUtility(IAuthorizationPolicy) IN
    IF authz = None
    THEN Return(Allowed(<<"No authorization policy in use.">>, <<>>),
                <<IAuthenticationPolicy, IAuthorizationPolicy>>, <<>>, <<>>)
    ELSE
    LET c1 == PolicyCall(authn, "effective_principals",
                         <<context, request>>, {})
        c2 == PolicyCall(authz, "permits",
                         <<context, c1.ret, permission>>, {})
    IN  Return(c2.ret, <<IAuthenticationPolicy, IAuthorizationPolicy>>,
               <<c1, c2>>, <<>>)

\* A faulty variant: either policy registered without the other is an error.
has_permission_Strict(permission, context, request) ==
    LET authn == queryUtility(IAuthenticationPolicy)
        authz == queryUtility(IAuthorizationPolicy)
    IN
    IF authn = None /\ authz = None
    THEN Return(Allowed(<<"No authentication policy in use.">>, <<>>),
                <<IAuthenticationPolicy, IAuthorizationPolicy>>, <<>>, <<>>)
    ELSE IF authn = None \/ authz = None
    THEN Raise(Exception("ValueError",
                  <<Str("Authentication policy registered without authorization policy")>>),
               <<IAuthenticationPolicy, IAuthorizationPolicy>>, <<>>, <<>>)
    ELSE
    LET c1 == PolicyCall(authn, "effective_principals",
                         <<context, request>>, {})
        c2 == PolicyCall(authz, "permits",
                         <<context, c1.ret, permission>>, {})
    IN  Return(c2.ret, <<IAuthenticationPolicy, IAuthorizationPolicy>>,
               <<c1, c2>>, <<>>)

\* A faulty variant: the authorization policy is looked up, and required, first.
has_permission_AuthzFirst(permission, context, request) ==
    LET authz == queryUtility(IAuthorizationPolicy) IN
    IF authz = None
    THEN Raise(Exception("ValueError",
                  <<Str("Authentication policy registered without authorization policy")>>),
               <<IAuthorizationPolicy>>, <<>>, <<>>)
    ELSE
    LET authn == queryUtility(IAuthenticationPolicy) IN
    IF authn = None
    THEN Return(Allowed(<<"No authentication policy in use.">>, <<>>),
                <<IAuthorizationPolicy, IAuthenticationPolicy>>, <<>>, <<>>)
    ELSE
    LET c1 == PolicyCall(authn, "effective_principals",
                         <<context, request>>, {})
        c2 == PolicyCall(authz, "permits",
                         <<context, c1.ret, permission>>, {})
    IN  Return(c2.ret, <<IAuthorizationPolicy, IAuthenticationPolicy>>,
               <<c1, c2>>, <<>>)

\* has_permission(permission, context, request)
has_permission(permission, context, request) ==
    LET authn == queryUtility(IAuthenticationPolicy) IN
    IF authn = None
    THEN Return(Allowed(<<"No authentication policy in use.">>, <<>>),
                <<IAuthenticationPolicy>>, <<>>, <<>>)
    ELSE
    LET authz == queryUtility(IAuthorizationPolicy) IN
    IF authz = None
    THEN Raise(Exception("ValueError",
                  <<Str("Authentication policy registered without authorization policy")>>),
               <<IAuthenticationPolicy, IAuthorizationPolicy>>, <<>>, <<>>)
    ELSE
    LET c1 == PolicyCall(authn, "effective_principals",
                         <<context, request>>, {})
        c2 == PolicyCall(authz, "permits",
                         <<context, c1.ret, permission>>, {})
    IN  Return(c2.ret, <<IAuthenticationPolicy, IAuthorizationPolicy>>,
               <<c1, c2>>, <<>>)

\* The warning a one-argument call of `api` emits: warnings.warn(message,
\* stacklevel=2), of the default category.
SingleArgumentWarning(api) ==
    [category |-> "UserWarning", api |-> api, stacklevel |-> 2]

\* The body shared by authenticated_userid(*args) and
\* effective_principals(*args): the arity check, the deprecated one-argument
\* form, then the dispatch to the policy's method `api`, or `default`
\* without a policy.
VariadicDispatch(api, args, default) ==
    LET largs == Len(args) IN
    IF largs > 2
    THEN Raise(Exception("TypeError", <<Tuple(args)>>), <<>>, <<>>, <<>>)
    ELSE IF largs # 1 /\ largs # 2
    THEN \* context, request = args: the unpacking fails
         Raise(Exception("ValueError", <<>>), <<>>, <<>>, <<>>)
    ELSE
    LET context == IF largs = 1 THEN None ELSE args[1]
        request == IF largs = 1 THEN args[1] ELSE args[2]
        wn == IF largs = 1 THEN <<SingleArgumentWarning(api)>> ELSE <<>>
        policy == queryUtility(IAuthenticationPolicy)
    IN  IF policy = None
        THEN Return(default, <<IAuthenticationPolicy>>, <<>>, wn)
        ELSE LET c == PolicyCall(policy, api, <<context, request>>, {})
             IN  Return(c.ret, <<IAuthenticationPolicy>>, <<c>>, wn)

\* authenticated_userid(*args)
authenticated_userid(args) ==
    VariadicDispatch("authenticated_userid", args, None)

\* effective_principals(*args)
effective_principals(args) ==
    VariadicDispatch("effective_principals", args, List(<<>>))

\* principals_allowed_by_permission(context, permission)
principals_allowed_by_permission(context, permission) ==
    LET policy == queryUtility(IAuthorizationPolicy) IN
    IF policy = None
    THEN Return(List(<<Everyone>>), <<IAuthorizationPolicy>>, <<>>, <<>>)
    ELSE LET c == PolicyCall(policy, "principals_allowed_by_permission",
                             <<context, permission>>, {})
         IN  Return(c.ret, <<IAuthorizationPolicy>>, <<c>>, <<>>)

\* A faulty variant: the credential keywords are not passed on.
remember_NoKeywords(context, request, principal, kw) ==
    LET policy == queryUtility(IAuthenticationPolicy) IN
    IF policy = None
    THEN Return(List(<<>>), <<IAuthenticationPolicy>>, <<>>, <<>>)
    ELSE LET c == PolicyCall(policy, "remember",
                             <<context, request, principal>>, {})
         IN  Return(c.ret, <<IAuthenticationPolicy>>, <<c>>, <<>>)

\* remember(context, request, principal, **kw)
remember(context, request, principal, kw) ==
    LET policy == queryUtility(IAuthenticationPolicy) IN
    IF policy = None
    THEN Return(List(<<>>), <<IAuthenticationPolicy>>, <<>>, <<>>)
    ELSE LET c == PolicyCall(policy, "remember",
                             <<context, request, principal>>, kw)
         IN  Return(c.ret, <<IAuthenticationPolicy>>, <<c>>, <<>>)

\* forget(context, request)
forget(context, request) ==
    LET policy == queryUtility(IAuthenticationPolicy) IN
    IF policy = None
    THEN Return(List(<<>>), <<IAuthenticationPolicy>>, <<>>, <<>>)
    ELSE LET c == PolicyCall(policy, "forget", <<context, request>>, {})
         IN  Return(c.ret, <<IAuthenticationPolicy>>, <<c>>, <<>>)

\* ViewPermissionFactory(permission_name)
ViewPermissionFactory(permission_name) ==
    [t |-> "ViewPermissionFactory", permission_name |-> permission_name]

\* ViewPermissionFactory.__call__(context, request)
ViewPermissionFactory_call(self, context, request) ==
    has_permission(self.permission_name, context, request)

\* queryMultiAdapter((context, request), IViewPermission, name=name,
\* default=default): the adapter the factory registered under `name` makes
\* of the objects, or `default` when none is registered or the factory
\* makes None.
queryMultiAdapter(objects, interface, name, default) ==
    LET factory == view_perms[name] IN
    IF factory = None
    THEN Return(default, <<interface>>, <<>>, <<>>)
    ELSE LET r == ViewPermissionFactory_call(factory, objects[1], objects[2])
             lk == <<interface>> \o r.lookups
         IN  IF r.outcome.kind = "return" /\ r.outcome.value = None
             THEN Return(default, lk, r.calls, r.warned)
             ELSE [r EXCEPT !.lookups = lk]

\* A faulty variant: a false result is taken for a missing one.
view_execution_permitted_Falsy(context, request, name) ==
    LET r == queryMultiAdapter(<<context, request>>, IViewPermission, name,
                               None)
    IN  IF r.outcome.kind = "raise" THEN r
        ELSE IF r.outcome.value = None \/ ~Truth(r.outcome.value)
        THEN Return(Allowed(<<"Allowed: view name ", "%r", " in context ",
                              "%r", " (no permission defined)">>,
                            <<name, context>>),
                    r.lookups, r.calls, r.warned)
        ELSE r

\* view_execution_permitted(context, request, name='')
view_execution_permitted(context, request, name) ==
    LET r == queryMultiAdapter(<<context, request>>, IViewPermission, name,
                               None)
    IN  IF r.outcome.kind = "raise" THEN r
        ELSE IF r.outcome.value = None
        THEN Return(Allowed(<<"Allowed: view name ", "%r", " in context ",
                              "%r", " (no permission defined)">>,
                            <<name, context>>),
                    r.lookups, r.calls, r.warned)
        ELSE r

-----------------------------------------------------------------------------
(* The ACL authorization policy (repoze.bfg.secpols), which makes the
   ACLAllowed and ACLDenied results. *)

\* A node of the resource tree: its ACL (a list of ACEs) or None, and its
\* parent or None.
Resource(id, acl, parent) ==
    [t |-> "object", id |-> id, acl |-> acl, parent |-> parent]

AcePrincipals == {Everyone, Str("bob"), Str("g1")}

\* A permission, a sequence of permissions, or the all-permissions marker.
PermissionSpecs ==
    {Str("view"), Tuple(<<Str("edit"), Str("delete")>>), ALL_PERMISSIONS}

ACEs ==
    {Tuple(<<action, principal, permissions>>) :
        action \in {Allow, Deny}, principal \in AcePrincipals,
        permissions \in PermissionSpecs}

ParentACLs ==
    {None, List(<<Tuple(<<Allow, Everyone, Str("view")>>)>>),
     List(<<DENY_ALL>>)}

Parents == {None} \cup {Resource("root", acl, None) : acl \in ParentACLs}

\* The principal sets a caller passes: the sublists of one list.
RECURSIVE SubLists(_)
SubLists(seq) ==
    IF seq = <<>> THEN {<<>>}
    ELSE LET rest == SubLists(Tail(seq)) IN
         rest \cup {<<Head(seq)>> \o r : r \in rest}

PrincipalLists ==
    {List(s) : s \in SubLists(<<Everyone, Str("bob"), Str("g1")>>)}

\* x in list
In(x, list) == \E i \in 1..Len(list.items) : list.items[i] = x

\* permission in ace_permissions: always true of the all-permissions marker.
PermissionIn(permission, ace_permissions) ==
    IF ace_permissions.t = "AllPermissionsList"
    THEN AllPermissionsList_contains(ace_permissions, permission)
    ELSE IF ace_permissions.t = "str"
    THEN permission = ace_permissions
    ELSE In(permission, ace_permissions)

\* An ACE (action, ace_principal, ace_permissions) matches the request.
Matches(ace, principals, permission) ==
    /\ In(ace.items[2], principals)
    /\ PermissionIn(permission, ace.items[3])

\* The index of the first ACE of the ACL that matches, or 0.
FirstMatch(acl, principals, permission) ==
    LET hits == {i \in 1..Len(acl.items) :
                    Matches(acl.items[i], principals, permission)}
    IN  IF hits = {} THEN 0 ELSE CHOOSE i \in hits : \A j \in hits : i <= j

\* The location chain: the context, its parent, and so on upward.
RECURSIVE Lineage(_)
Lineage(context) ==
    <<context>> \o (IF context.parent = None THEN <<>>
                    ELSE Lineage(context.parent))

\* The node bears a non-empty ACL.
HasACL(node) == node.acl # None /\ node.acl.items # <<>>

NO_ACL_FOUND == Str("<No ACL found on any object in model lineage>")

NO_MATCHING_ACE == Str("<default deny>")

\* The result the ACE at index i of the ACL decides.
Decide(acl, i, permission, principals, context) ==
    IF acl.items[i].items[1] = Allow
    THEN ACLAllowed(acl.items[i], acl, permission, principals, context)
    ELSE ACLDenied(acl.items[i], acl, permission, principals, context)

\* The non-inheriting policy's permits(context, principals, permission):
\* only the ACL of the context itself is evaluated.
ACLPolicy_permits(context, principals, permission) ==
    IF ~HasACL(context)
    THEN ACLDenied(NO_ACL_FOUND, None, permission, principals, context)
    ELSE LET acl == context.acl
             i == FirstMatch(acl, principals, permission)
         IN  IF i = 0
             THEN ACLDenied(NO_MATCHING_ACE, acl, permission, principals,
                            context)
             ELSE Decide(acl, i, permission, principals, context)

\* The inheriting policy's walk over the locations left, `searched` being
\* the ACLs evaluated so far without a match.
RECURSIVE InheritingWalk(_, _, _, _, _)
InheritingWalk(locations, searched, context, principals, permission) ==
    IF locations = <<>>
    THEN IF searched = <<>>
         THEN ACLDenied(NO_ACL_FOUND, None, permission, principals, context)
         ELSE ACLDenied(NO_MATCHING_ACE, List(searched), permission,
                        principals, context)
    ELSE LET node == Head(locations) IN
         IF ~HasACL(node)
         THEN InheritingWalk(Tail(locations), searched, context, principals,
                             permission)
         ELSE LET i == FirstMatch(node.acl, principals, permission) IN
              IF i = 0
              THEN InheritingWalk(Tail(locations), Append(searched, node.acl),
                                  context, principals, permission)
              ELSE Decide(node.acl, i, permission, principals, context)

\* The inheriting policy's permits(context, principals, permission).
InheritingACLPolicy_permits(context, principals, permission) ==
    InheritingWalk(Lineage(context), <<>>, context, principals, permission)

-----------------------------------------------------------------------------
(* The facade functions as a state machine: the registry is configured,
   a caller makes one call, and takes its outcome. *)

Idle == [name |-> "idle", args |-> <<>>, kw |-> {}]

NoOutcome == [kind |-> "none", value |-> None]

InitFacade ==
    /\ authn_policy = None
    /\ authz_policy = None
    /\ view_perms = [n \in ViewNames |-> None]
    /\ op = Idle
    /\ outcome = NoOutcome
    /\ lookups = <<>>
    /\ calls = <<>>
    /\ warned = <<>>

InitResults == inst = None

InitACL ==
    /\ resource = Resource("context", None, None)
    /\ acl_op = Idle
    /\ acl_result = None

Init == InitFacade /\ InitResults /\ InitACL

call_vars == <<op, outcome, lookups, calls, warned>>

\* The application registers an authentication policy, or removes it.
SetAuthenticationPolicy ==
    /\ op = Idle
    /\ \E p \in AuthenticationPolicies \cup {None} :
           /\ p # authn_policy
           /\ authn_policy' = p
    /\ UNCHANGED <<authz_policy, view_perms, call_vars, inst, acl_vars>>

\* The application registers an authorization policy, or removes it.
SetAuthorizationPolicy ==
    /\ op = Idle
    /\ \E p \in AuthorizationPolicies \cup {None} :
           /\ p # authz_policy
           /\ authz_policy' = p
    /\ UNCHANGED <<authn_policy, view_perms, call_vars, inst, acl_vars>>

\* The application registers a view under a name with a permission, or
\* with none.
SetViewPermission ==
    /\ op = Idle
    /\ \E n \in ViewNames,
          f \in {ViewPermissionFactory(p) : p \in Permissions} \cup {None} :
           /\ f # view_perms[n]
           /\ view_perms' = [view_perms EXCEPT ![n] = f]
    /\ UNCHANGED <<authn_policy, authz_policy, call_vars, inst, acl_vars>>

\* A call of facade function `name`, which did `eff`.
Called(name, args, kw, eff) ==
    /\ op = Idle
    /\ op' = [name |-> name, args |-> args, kw |-> kw]
    /\ outcome' = eff.outcome
    /\ lookups' = eff.lookups
    /\ calls' = eff.calls
    /\ warned' = eff.warned
    /\ UNCHANGED <<authn_policy, authz_policy, view_perms, inst, acl_vars>>

Call_has_permission ==
    \E permission \in Permissions, context \in Contexts, request \in Requests :
        Called("has_permission", <<permission, context, request>>, {},
               has_permission(permission, context, request))

Call_authenticated_userid ==
    \E args \in ArgLists(MaxArgs) :
        Called("authenticated_userid", args, {}, authenticated_userid(args))

Call_effective_principals ==
    \E args \in ArgLists(MaxArgs) :
        Called("effective_principals", args, {}, effective_principals(args))

Call_principals_allowed_by_permission ==
    \E context \in Contexts, permission \in Permissions :
        Called("principals_allowed_by_permission", <<context, permission>>,
               {}, principals_allowed_by_permission(context, permission))

Call_remember ==
    \E context \in Contexts, request \in Requests, principal \in Userids,
       kw \in Keywords :
        Called("remember", <<context, request, principal>>, kw,
               remember(context, request, principal, kw))

Call_forget ==
    \E context \in Contexts, request \in Requests :
        Called("forget", <<context, request>>, {}, forget(context, request))

Call_view_execution_permitted ==
    \E context \in Contexts, request \in Requests, name \in ViewNames :
        Called("view_execution_permitted", <<context, request, name>>, {},
               view_execution_permitted(context, request, name))

\* The caller takes the outcome of its call.
Done ==
    /\ op # Idle
    /\ op' = Idle
    /\ outcome' = NoOutcome
    /\ lookups' = <<>>
    /\ calls' = <<>>
    /\ warned' = <<>>
    /\ UNCHANGED <<authn_policy, authz_policy, view_perms, inst, acl_vars>>

Next ==
    \/ SetAuthenticationPolicy
    \/ SetAuthorizationPolicy
    \/ SetViewPermission
    \/ Call_has_permission
    \/ Call_authenticated_userid
    \/ Call_effective_principals
    \/ Call_principals_allowed_by_permission
    \/ Call_remember
    \/ Call_forget
    \/ Call_view_execution_permitted
    \/ Done

Spec == Init /\ [][Next]_vars

-----------------------------------------------------------------------------
(* Properties of the facade functions *)

NoPolicyMessage == <<[lit |-> "No authentication policy in use."]>>

\* C1: when no authentication policy is registered, has_permission returns
\* an Allowed result that is true and whose message is 'No authentication
\* policy in use.', and calls no method of any policy.
C1_NoAuthnAllows ==
    (op.name = "has_permission" /\ authn_policy = None) =>
        /\ outcome.kind = "return"
        /\ outcome.value.t = "Allowed"
        /\ Truth(outcome.value)
        /\ PermitsResult_msg(outcome.value) = NoPolicyMessage
        /\ calls = <<>>

\* C1, witness: such a call has been made.
C1_Witness ==
    /\ op.name = "has_permission"
    /\ authn_policy = None
    /\ authz_policy = None
    /\ outcome.kind = "return"

\* C2: with an authentication policy and no authorization policy registered,
\* has_permission raises: it returns no result, and it raises before it
\* asks the authentication policy for the effective principals.
C2_AuthnWithoutAuthzRaises ==
    (op.name = "has_permission" /\ authn_policy # None /\ authz_policy = None) =>
        /\ outcome.kind = "raise"
        /\ outcome.value.t \notin {"Allowed", "Denied", "ACLAllowed", "ACLDenied"}
        /\ calls = <<>>

\* C2, witness: such a call has been made.
C2_Witness ==
    /\ op.name = "has_permission"
    /\ authn_policy # None
    /\ authz_policy = None
    /\ outcome.kind = "raise"
    /\ outcome.value.t = "ValueError"

\* C3, as claimed: with an authorization policy and no authentication policy
\* registered, has_permission raises and never returns a result.
C3_AuthzWithoutAuthnRaises ==
    (op.name = "has_permission" /\ authn_policy = None /\ authz_policy # None) =>
        outcome.kind = "raise"

\* C3, amended: with an authorization policy and no authentication policy
\* registered, has_permission raises nothing: it returns the Allowed result
\* 'No authentication policy in use.' and does not even look the
\* authorization policy up.
C3_AuthzWithoutAuthnAllows ==
    (op.name = "has_permission" /\ authn_policy = None /\ authz_policy # None) =>
        /\ outcome.kind = "return"
        /\ outcome.value = Allowed(<<"No authentication policy in use.">>, <<>>)
        /\ lookups = <<IAuthenticationPolicy>>

\* C3, witness: such a call has been made.
C3_Witness ==
    /\ op.name = "has_permission"
    /\ authn_policy = None
    /\ authz_policy # None
    /\ outcome.kind = "return"
    /\ Truth(outcome.value)

\* C4: with both policies registered, has_permission(permission, context,
\* request) asks the authentication policy for effective_principals(context,
\* request), asks the authorization policy permits(context, <those
\* principals>, permission), and returns what permits returned, unchanged,
\* also when that is a false (Denied) result.
C4_Delegates ==
    (op.name = "has_permission" /\ authn_policy # None /\ authz_policy # None) =>
        LET permission == op.args[1]
            context == op.args[2]
            request == op.args[3]
        IN  /\ Len(calls) = 2
            /\ calls[1] = [obj |-> "authn", method |-> "effective_principals",
                           args |-> <<context, request>>, kw |-> {},
                           ret |-> authn_policy.effective_principals]
            /\ calls[2] = [obj |-> "authz", method |-> "permits",
                           args |-> <<context, calls[1].ret, permission>>,
                           kw |-> {}, ret |-> authz_policy.permits]
            /\ outcome = [kind |-> "return", value |-> calls[2].ret]

\* C4, witness: such a call has been made.
C4_Witness ==
    /\ op.name = "has_permission"
    /\ authn_policy # None
    /\ authz_policy # None
    /\ outcome.kind = "return"
    /\ outcome.value.t = "Denied"
    /\ ~Truth(outcome.value)
    /\ op.args[2] = Obj("ctx2")

AuthenticationFacades ==
    {"authenticated_userid", "effective_principals", "remember", "forget"}

\* What each authentication facade returns when no policy is registered.
FacadeDefault(name) ==
    IF name = "authenticated_userid" THEN None ELSE List(<<>>)

\* A call in the (context, request) form: remember adds the principal.
TwoArgumentForm ==
    /\ op.name \in AuthenticationFacades
    /\ Len(op.args) = IF op.name = "remember" THEN 3 ELSE 2

\* C6: called with (context, request): without an authentication policy,
\* authenticated_userid returns None and effective_principals, remember and
\* forget return an empty sequence; with one, each facade calls the policy's
\* method of the same name once, with the same arguments (remember: also
\* the principal and the keywords), and returns what it returned.
C6_AuthenticationDispatch ==
    TwoArgumentForm =>
        IF authn_policy = None
        THEN /\ outcome = [kind |-> "return", value |-> FacadeDefault(op.name)]
             /\ calls = <<>>
        ELSE /\ calls = <<[obj |-> "authn", method |-> op.name,
                           args |-> op.args, kw |-> op.kw,
                           ret |-> authn_policy[op.name]]>>
             /\ outcome = [kind |-> "return", value |-> calls[1].ret]

\* C6, witness: such a call has been made.
C6_Witness ==
    /\ op.name = "remember"
    /\ op.kw # {}
    /\ authn_policy # None
    /\ outcome.kind = "return"
    /\ outcome.value # List(<<>>)

\* C7, as claimed: authenticated_userid and effective_principals called with
\* zero or with three or more arguments raise TypeError without looking up
\* or calling the authentication policy; called with one argument they
\* return, warn, and call the policy with context = None.
C7_ArityErrorIsTypeError ==
    (op.name \in {"authenticated_userid", "effective_principals"}) =>
        /\ Len(op.args) \notin {1, 2} =>
               /\ outcome.kind = "raise"
               /\ outcome.value.t = "TypeError"
               /\ lookups = <<>>
               /\ calls = <<>>
        /\ Len(op.args) = 1 =>
               /\ outcome.kind = "return"
               /\ warned = <<SingleArgumentWarning(op.name)>>
               /\ authn_policy # None =>
                      /\ Len(calls) = 1
                      /\ calls[1].args = <<None, op.args[1]>>

\* C8: view_execution_permitted(context, request, name): for a view
\* registered without a permission the result is a true Allowed whose
\* message says that no permission is defined; for a view registered with
\* permission p the outcome is that of has_permission(p, context, request):
\* true when no authentication policy is registered, and the policy's own
\* result, false or not, when both policies are.
C8_ViewGuard ==
    (op.name = "view_execution_permitted") =>
        LET context == op.args[1]
            request == op.args[2]
            name == op.args[3]
            factory == view_perms[name]
        IN  IF factory = None
            THEN /\ outcome.kind = "return"
                 /\ outcome.value.t = "Allowed"
                 /\ Truth(outcome.value)
                 /\ PermitsResult_msg(outcome.value) =
                        <<[lit |-> "Allowed: view name "], [repr |-> name],
                          [lit |-> " in context "], [repr |-> context],
                          [lit |-> " (no permission defined)"]>>
                 /\ calls = <<>>
            ELSE LET r == has_permission(factory.permission_name, context,
                                         request)
                 IN  /\ outcome = r.outcome
                     /\ calls = r.calls
                     /\ authn_policy = None =>
                            outcome.kind = "return" /\ Truth(outcome.value)
                     /\ (authn_policy # None /\ authz_policy # None) =>
                            outcome = [kind |-> "return",
                                       value |-> authz_policy.permits]

\* C8, witness: such a call has been made.
C8_Witness ==
    /\ op.name = "view_execution_permitted"
    /\ view_perms[op.args[3]] # None
    /\ authn_policy # None
    /\ authz_policy # None
    /\ outcome.kind = "return"
    /\ outcome.value.t \in {"Denied", "ACLDenied"}
    /\ ~Truth(outcome.value)

-----------------------------------------------------------------------------
(* The result types as a state machine: results are constructed. *)

\* A message: a format string and the arguments it consumes.
Messages ==
    {<<<<>>, <<>>>>, <<<<"ok">>, <<>>>>, <<<<"no ", "%r">>, <<Str("view")>>>>,
     <<<<"no ", "%r">>, <<None>>>>}

New_Denied ==
    /\ \E m \in Messages : inst' = Denied(m[1], m[2])
    /\ UNCHANGED <<facade_vars, acl_vars>>

New_Allowed ==
    /\ \E m \in Messages : inst' = Allowed(m[1], m[2])
    /\ UNCHANGED <<facade_vars, acl_vars>>

ResultACEs == {NO_MATCHING_ACE, DENY_ALL, Tuple(<<Allow, Everyone, Str("view")>>)}

ResultACLs == {None, List(<<>>), List(<<DENY_ALL>>)}

ResultPrincipals == {List(<<>>), List(<<Everyone>>)}

New_ACLDenied ==
    /\ \E ace \in ResultACEs, acl \in ResultACLs, permission \in Permissions,
          principals \in ResultPrincipals, context \in Contexts :
           inst' = ACLDenied(ace, acl, permission, principals, context)
    /\ UNCHANGED <<facade_vars, acl_vars>>

New_ACLAllowed ==
    /\ \E ace \in ResultACEs, acl \in ResultACLs, permission \in Permissions,
          principals \in ResultPrincipals, context \in Contexts :
           inst' = ACLAllowed(ace, acl, permission, principals, context)
    /\ UNCHANGED <<facade_vars, acl_vars>>

NextResults == New_Denied \/ New_Allowed \/ New_ACLDenied \/ New_ACLAllowed

SpecResults == Init /\ [][NextResults]_vars

\* C5: every Denied and every ACLDenied is false (the integer 0) and every
\* Allowed and every ACLAllowed is true (the integer 1), whatever it was
\* constructed with.
C5_TruthByClass ==
    /\ inst.t \in {"Denied", "ACLDenied"} => (inst.int = 0 /\ ~Truth(inst))
    /\ inst.t \in {"Allowed", "ACLAllowed"} => (inst.int = 1 /\ Truth(inst))

\* C5, witness: an Allowed constructed with an empty message is true.
C5_Witness ==
    /\ inst.t = "Allowed"
    /\ inst.s = <<>>
    /\ Truth(inst)

-----------------------------------------------------------------------------
(* The ACL policy as a state machine: the application edits the ACLs of the
   resource tree, a caller asks permits, and takes the result. *)

\* The application appends an ACE to the ACL of the context.
AppendACE ==
    /\ acl_op = Idle
    /\ \E ace \in ACEs :
           LET items == IF resource.acl = None THEN <<>>
                        ELSE resource.acl.items
           IN  /\ Len(items) < MaxAclLen
               /\ resource' = [resource EXCEPT !.acl = List(Append(items, ace))]
    /\ UNCHANGED <<facade_vars, inst, acl_op, acl_result>>

\* The application removes the ACL of the context, or empties it.
ClearACL ==
    /\ acl_op = Idle
    /\ \E acl \in {None, List(<<>>)} :
           /\ resource.acl # acl
           /\ resource' = [resource EXCEPT !.acl = acl]
    /\ UNCHANGED <<facade_vars, inst, acl_op, acl_result>>

\* The application moves the context under another parent, or under none.
SetParent ==
    /\ acl_op = Idle
    /\ \E parent \in Parents :
           /\ resource.parent # parent
           /\ resource' = [resource EXCEPT !.parent = parent]
    /\ UNCHANGED <<facade_vars, inst, acl_op, acl_result>>

Call_ACLPolicy_permits ==
    /\ acl_op = Idle
    /\ \E principals \in PrincipalLists, permission \in Permissions :
           /\ acl_op' = [name |-> "ACLPolicy.permits",
                         args |-> <<resource, principals, permission>>,
                         kw |-> {}]
           /\ acl_result' = ACLPolicy_permits(resource, principals, permission)
    /\ UNCHANGED <<facade_vars, inst, resource>>

Call_InheritingACLPolicy_permits ==
    /\ acl_op = Idle
    /\ \E principals \in PrincipalLists, permission \in Permissions :
           /\ acl_op' = [name |-> "InheritingACLPolicy.permits",
                         args |-> <<resource, principals, permission>>,
                         kw |-> {}]
           /\ acl_result' =
                  InheritingACLPolicy_permits(resource, principals, permission)
    /\ UNCHANGED <<facade_vars, inst, resource>>

\* The caller takes the result.
DoneACL ==
    /\ acl_op # Idle
    /\ acl_op' = Idle
    /\ acl_result' = None
    /\ UNCHANGED <<facade_vars, inst, resource>>

NextACL ==
    \/ AppendACE
    \/ ClearACL
    \/ SetParent
    \/ Call_ACLPolicy_permits
    \/ Call_InheritingACLPolicy_permits
    \/ DoneACL

SpecACL == Init /\ [][NextACL]_vars

-----------------------------------------------------------------------------
(* Properties of the ACL policy *)

PermitsCalled ==
    acl_op.name \in {"ACLPolicy.permits", "InheritingACLPolicy.permits"}

\* The index, in the location chain, of the first node bearing a non-empty
\* ACL, or 0.
FirstACLNode(locations) ==
    LET with == {k \in 1..Len(locations) : HasACL(locations[k])}
    IN  IF with = {} THEN 0 ELSE CHOOSE k \in with : \A j \in with : k <= j

\* The call evaluated the ACL of the first node bearing a non-empty ACL: the
\* inheriting policy always does, the non-inheriting policy when that node
\* is the context itself.
EvaluatedFirstACL ==
    /\ PermitsCalled
    /\ LET k == FirstACLNode(Lineage(acl_op.args[1]))
       IN  k # 0 /\ (acl_op.name = "InheritingACLPolicy.permits" \/ k = 1)

\* That ACL.
FirstACL ==
    LET locations == Lineage(acl_op.args[1])
    IN  locations[FirstACLNode(locations)].acl

\* The ACE mentions principal P and the permission.
Mentions(ace, P, permission) ==
    ace.items[2] = P /\ PermissionIn(permission, ace.items[3])

\* C9, as claimed: if (Allow, P, perm) precedes every other ACE of the
\* evaluated ACL that mentions P and perm, and the caller's principals
\* contain P, then permits(context, principals, perm) is an ACLAllowed whose
\* ace is that entry.
C9_AllowBeforeSamePrincipal ==
    EvaluatedFirstACL =>
        LET acl == FirstACL
            principals == acl_op.args[2]
            perm == acl_op.args[3]
        IN  \A i \in 1..Len(acl.items) :
               LET ace == acl.items[i] IN
               ( /\ ace.items[1] = Allow
                 /\ ace.items[3] = perm
                 /\ In(ace.items[2], principals)
                 /\ \A j \in 1..(i - 1) :
                        ~Mentions(acl.items[j], ace.items[2], perm) )
               => (acl_result.t = "ACLAllowed" /\ acl_result.ace = ace)

\* C9, amended: if (Allow, P, perm) precedes every other ACE of the
\* evaluated ACL that matches the request (an ACE whose principal is among
\* the caller's principals and whose permissions contain perm), and the
\* caller's principals contain P, then permits(context, principals, perm) is
\* a true ACLAllowed whose ace is that entry and whose acl is that ACL.
C9_FirstMatchWins ==
    EvaluatedFirstACL =>
        LET acl == FirstACL
            principals == acl_op.args[2]
            perm == acl_op.args[3]
        IN  \A i \in 1..Len(acl.items) :
               LET ace == acl.items[i] IN
               ( /\ ace.items[1] = Allow
                 /\ ace.items[3] = perm
                 /\ In(ace.items[2], principals)
                 /\ \A j \in 1..(i - 1) :
                        ~Matches(acl.items[j], principals, perm) )
               => ( /\ acl_result.t = "ACLAllowed"
                    /\ Truth(acl_result)
                    /\ acl_result.ace = ace
                    /\ acl_result.acl = acl )

\* C9, witness: the Allow entry is second, after a Deny entry for one of
\* the caller's principals that does not match, and it decides.
C9_Witness ==
    /\ EvaluatedFirstACL
    /\ Len(FirstACL.items) = 2
    /\ FirstACL.items[1].items[1] = Deny
    /\ In(FirstACL.items[1].items[2], acl_op.args[2])
    /\ FirstACL.items[2] = Tuple(<<Allow, Str("bob"), acl_op.args[3]>>)
    /\ acl_result.t = "ACLAllowed"
    /\ acl_result.ace = FirstACL.items[2]

\* The principals of the Allow ACEs of the ACL.
AllowPrincipals(acl) ==
    {acl.items[i].items[2] :
        i \in {j \in 1..Len(acl.items) : acl.items[j].items[1] = Allow}}

EndsInDenyAll(acl) == acl.items[Len(acl.items)] = DENY_ALL

\* C10, as claimed: if the evaluated ACL ends in DENY_ALL and the caller's
\* principals are disjoint from the principals of its Allow ACEs, permits is
\* an ACLDenied whose ace is DENY_ALL, for every permission.
C10_DenyAllTerminator ==
    EvaluatedFirstACL =>
        LET acl == FirstACL
            principals == acl_op.args[2]
        IN  ( /\ EndsInDenyAll(acl)
              /\ \A P \in AllowPrincipals(acl) : ~In(P, principals) )
            => (acl_result.t = "ACLDenied" /\ acl_result.ace = DENY_ALL)

\* C10, amended: if the evaluated ACL ends in DENY_ALL and the caller's
\* principals contain Everyone, are disjoint from the principals of its
\* Allow ACEs, and no Deny ACE of it other than DENY_ALL matches the
\* request, permits is a false ACLDenied whose ace is DENY_ALL, for every
\* permission.
C10_DenyAllDecides ==
    EvaluatedFirstACL =>
        LET acl == FirstACL
            principals == acl_op.args[2]
            perm == acl_op.args[3]
        IN  ( /\ EndsInDenyAll(acl)
              /\ \A P \in AllowPrincipals(acl) : ~In(P, principals)
              /\ In(Everyone, principals)
              /\ \A i \in 1..Len(acl.items) :
                     Matches(acl.items[i], principals, perm) =>
                         (acl.items[i].items[1] = Allow \/ acl.items[i] = DENY_ALL) )
            => ( /\ acl_result.t = "ACLDenied"
                 /\ ~Truth(acl_result)
                 /\ acl_result.ace = DENY_ALL )

\* C10, witness: an Allow entry for a principal the caller is not, then the
\* terminator, which decides a permission no entry names.
C10_Witness ==
    /\ EvaluatedFirstACL
    /\ FirstACL = List(<<Tuple(<<Allow, Str("g1"), Str("view")>>), DENY_ALL>>)
    /\ acl_op.args[2] = List(<<Everyone, Str("bob")>>)
    /\ acl_op.args[3] = Str("edit")
    /\ acl_result.t = "ACLDenied"
    /\ acl_result.ace = DENY_ALL

====
